---- MODULE Spec2Model ----
(***************************************************************************)
(* FilesystemVerifierAction of update_engine                               *)
(* (payload_consumer/filesystem_verifier_action.cc) as a state machine.    *)
(*                                                                         *)
(* One action per entry point that the message loop or the action          *)
(* processor can call: PerformAction, the posted OnReadDone task, and      *)
(* TerminateProcessing.  Every entry point runs to its return, so the      *)
(* synchronous call chain StartPartitionHashing -> ScheduleFileSystemRead  *)
(* -> ReadVerityAndFooter -> FinishPartitionHashing -> StartPartition-     *)
(* Hashing is part of the action that entered it.  The procedures are      *)
(* operators from a machine record to the SET of machine records they can  *)
(* return with; the set collects the outcomes of the collaborators (device *)
(* reads, opens, the verity writer, the hasher, dynamic partition control).*)
(*                                                                         *)
(* Sizes and offsets are byte counts, all multiples of a granule of half a *)
(* read buffer; a read is short only where the device ends.                *)
(* The content of a device is one atom per granule; a digest is the        *)
(* sequence of atoms that was hashed, so two digests are equal exactly     *)
(* when the same bytes were hashed in the same order.                      *)
(*                                                                         *)
(* SpecKernel is a second specification, of the pure function              *)
(* HardwareAndroid::IsKernelUpdateValid (hardware_android.cc): its         *)
(* arguments are drawn from ReleaseStrings and one action applies it.      *)
(***************************************************************************)
EXTENDS Integers, Sequences, FiniteSets, TLC

\* ---------------------------------------------------------------- bounds
MaxPartitions == 2
MaxGranules == 4
\* Kernel releases w.x.y of the release strings: w, x and y from 0 up to these.
MaxVersion == 1
MaxPatchLevel == 1
MaxSubLevel == 2

\* ------------------------------------------------------------- constants
kReadFileBufferSize == 128 * 1024
Granule == kReadFileBufferSize \div 2
MaxSize == MaxGranules * Granule
\* No device of the model is longer than this: a read at or past it is EOF.
MaxDevSize == MaxSize + Granule

kSuccess == "kSuccess"
kError == "kError"
kFilesystemVerifierError == "kFilesystemVerifierError"
kNewRootfsVerificationError == "kNewRootfsVerificationError"
kDownloadStateInitializationError == "kDownloadStateInitializationError"
kVerityCalculationError == "kVerityCalculationError"
kDownloadManifestParseError == "kDownloadManifestParseError"
kPayloadTimestampError == "kPayloadTimestampError"

kVerifyTargetHash == "kVerifyTargetHash"
kVerifySourceHash == "kVerifySourceHash"

Min(a, b) == IF a <= b THEN a ELSE b

\* uint64_t subtraction.  TLC's integers are 32 bits wide, so the wrapped
\* result 2^64 + d of a - b with a < b is represented by the negative d
\* itself: it is non-zero, it is larger than every size_t of the model, and
\* subtracting a byte count from it keeps it wrapped.
SubU64(a, b) == a - b
IsZeroU64(d) == d = 0
MinSizeU64(n, d) == IF d < 0 THEN n ELSE Min(n, d)

\* ------------------------------------------------------ content, digests
Atom(part, side, k, ver) == [part |-> part, side |-> side, k |-> k, ver |-> ver]
BadAtom == Atom(0, "none", 0, 0)

\* std::string hash fields: the empty string, or a digest.  A digest wraps
\* the hashed content, so it is never the empty string (a SHA-256 value has
\* 32 bytes whatever was hashed).
EmptyHash == << >>
Digest(content) == << content >>
BadDigest == Digest(<< BadAtom >>)

InRange(off, start, size) == size > 0 /\ start <= off /\ off < start + size

\* Granule k of a partition lies in the hash tree or in the FEC area.
InVerityArea(p, k) ==
  \/ InRange(k * Granule, p.hash_tree_offset, p.hash_tree_size)
  \/ InRange(k * Granule, p.fec_offset, p.fec_size)

\* What a device holds at granule k: the verity writer's Finalize rewrites
\* the hash tree and FEC areas of the target (ver 1).
DeviceAtom(p, part, side, k, written) ==
  Atom(part, side, k,
       IF side = "target" /\ written /\ InVerityArea(p, k) THEN 1 ELSE 0)

DeviceContent(p, part, side, size, written) ==
  [j \in 1..(size \div Granule) |-> DeviceAtom(p, part, side, j - 1, written)]

\* ------------------------------------------------------------ the plans
\* Shapes of a partition: the fields that the verifier reads, without the
\* digests, which are filled in from the content by MakePartition.
Layouts ==
  { [hto |-> 0, hts |-> 0, fo |-> 0, fs |-> 0],
    [hto |-> Granule, hts |-> Granule, fo |-> 2 * Granule, fs |-> Granule],
    [hto |-> Granule, hts |-> Granule, fo |-> 0, fs |-> 0],
    [hto |-> 0, hts |-> 0, fo |-> MaxSize - Granule, fs |-> Granule] }

NoLayout == [hto |-> 0, hts |-> 0, fo |-> 0, fs |-> 0]
TreeAndFec ==
  [hto |-> Granule, hts |-> Granule, fo |-> 2 * Granule, fs |-> Granule]

Targets ==
  { [path |-> "", size |-> 0], [path |-> "", size |-> Granule],
    [path |-> "target_path", size |-> 0],
    [path |-> "target_path", size |-> MaxSize] }

Sources ==
  { [path |-> "", size |-> 0], [path |-> "", size |-> Granule],
    [path |-> "source_path", size |-> 0],
    [path |-> "source_path", size |-> Granule],
    [path |-> "source_path", size |-> MaxSize] }

NoSource == [path |-> "", size |-> 0]

Shape(t, th, s, sh, l) ==
  [target |-> t, target_hash |-> th, source |-> s, source_hash |-> sh,
   layout |-> l]

\* The partition of a plan of one partition: every combination for a full-size
\* target, and for the others the combinations that the descriptor
\* selection and the skip distinguish.
FullShapes ==
  { Shape(t, th, s, sh, l) :
      t \in {x \in Targets : x.size = MaxSize}, th \in {"good"},
      s \in {NoSource, [path |-> "source_path", size |-> Granule]},
      sh \in {"empty", "good"}, l \in Layouts } \cup
  { Shape(t, th, s, sh, l) :
      t \in {x \in Targets : x.size = MaxSize}, th \in {"bad"},
      s \in Sources, sh \in {"empty", "good", "bad"}, l \in Layouts } \cup
  { Shape(t, th, s, sh, NoLayout) :
      t \in {x \in Targets : x.size # MaxSize}, th \in {"good", "bad"},
      s \in {NoSource, [path |-> "source_path", size |-> Granule]},
      sh \in {"empty", "good"} }

CanonicalShape(sh) ==
  /\ sh.source_hash = "empty" => sh.source = NoSource
  /\ (sh.target_hash = "good" /\ sh.source_hash # "empty")
       => sh.source.path # ""

\* The partitions before the last one: an empty one that is skipped, one
\* that verifies, one that verifies with verity, and one whose target
\* mismatches and whose source has a digest but neither a path nor a size.
LeadShapes ==
  { Shape([path |-> "", size |-> 0], "good", NoSource, "empty", NoLayout),
    Shape([path |-> "target_path", size |-> Granule], "good", NoSource,
          "empty", NoLayout),
    Shape([path |-> "target_path", size |-> MaxSize], "good", NoSource,
          "empty",
          [hto |-> Granule, hts |-> Granule, fo |-> 2 * Granule,
           fs |-> Granule]),
    Shape([path |-> "target_path", size |-> Granule], "bad", NoSource,
          "good", NoLayout) }

WillWriteVerity(write_verity, l) == write_verity /\ (l.hts > 0 \/ l.fs > 0)

MakePartition(i, sh, write_verity) ==
  LET p0 == [name |-> i,
             source_path |-> sh.source.path,
             target_path |-> sh.target.path,
             readonly_target_path |-> "readonly_target_path",
             source_size |-> sh.source.size,
             target_size |-> sh.target.size,
             hash_tree_offset |-> sh.layout.hto,
             hash_tree_size |-> sh.layout.hts,
             fec_offset |-> sh.layout.fo,
             fec_size |-> sh.layout.fs]
      th == IF sh.target_hash = "good"
              THEN Digest(DeviceContent(p0, i, "target", p0.target_size,
                                        WillWriteVerity(write_verity, sh.layout)))
              ELSE BadDigest
      shh == CASE sh.source_hash = "empty" -> EmptyHash
               [] sh.source_hash = "good" ->
                    Digest(DeviceContent(p0, i, "source", p0.source_size, FALSE))
               [] OTHER -> BadDigest
  IN [name |-> p0.name,
      source_path |-> p0.source_path,
      target_path |-> p0.target_path,
      readonly_target_path |-> p0.readonly_target_path,
      source_size |-> p0.source_size,
      target_size |-> p0.target_size,
      hash_tree_offset |-> p0.hash_tree_offset,
      hash_tree_size |-> p0.hash_tree_size,
      fec_offset |-> p0.fec_offset,
      fec_size |-> p0.fec_size,
      source_hash |-> shh,
      target_hash |-> th]

\* The last partition of a plan of several partitions; the partitions before
\* it are alike.
LastShapes ==
  { sh \in FullShapes :
      /\ sh.layout \in {NoLayout, TreeAndFec}
      /\ sh.source \in {NoSource, [path |-> "source_path", size |-> Granule]}
      /\ sh.target.path = "" => sh.source_hash = "empty" }

ShapeLists ==
  {<< >>} \cup
  { << sh >> : sh \in {x \in FullShapes : CanonicalShape(x)} } \cup
  UNION { { ss \in [1..n -> LastShapes \cup LeadShapes] :
              /\ \A i \in 1..(n - 1) : ss[i] \in LeadShapes /\ ss[i] = ss[1]
              /\ ss[n] \in LastShapes /\ CanonicalShape(ss[n]) } :
          n \in 2..MaxPartitions }

InstallPlans ==
  { [source_slot |-> 0, target_slot |-> 1, write_verity |-> wv,
     partitions |-> [i \in 1..Len(ss) |-> MakePartition(i - 1, ss[i], wv)],
     untouched_dynamic_partitions |-> u] :
      ss \in ShapeLists, wv \in BOOLEAN, u \in {{}, {"untouched"}} }

\* A default-constructed InstallPlan.
EmptyPlan ==
  [source_slot |-> 0, target_slot |-> 0, write_verity |-> TRUE,
   partitions |-> << >>, untouched_dynamic_partitions |-> {}]

\* Section 3 of the specification: the invariants of an accepted plan.
PartitionInvariants(p) ==
  /\ (p.hash_tree_offset # 0 /\ p.fec_offset # 0)
       => p.hash_tree_offset <= p.fec_offset
  /\ p.hash_tree_size > 0 => p.hash_tree_offset + p.hash_tree_size <= p.target_size
  /\ p.fec_size > 0 => p.fec_offset + p.fec_size <= p.target_size
  /\ p.source_hash = EmptyHash \/ (p.source_size > 0 /\ p.source_path # "")
  /\ p.target_size > 0 => p.target_hash # EmptyHash

PlanInvariants(plan) ==
  \A i \in 1..Len(plan.partitions) : PartitionInvariants(plan.partitions[i])


\* ------------------------------------------------------------- the state
VARIABLES
  input_object,         \* the action's input pipe: << >> or << plan >>
  vabc,                 \* dynamic_control_->UpdateUsesSnapshotCompression()
  dynamic_partitions,   \* names for which IsDynamicPartition(name, target_slot)
  action_state,         \* the action processor's view of the action
  install_plan_, partition_index_, verifier_step_, partition_size_, offset_,
  filesystem_data_end_, cancelled_, buffer_, partition_fd_, hasher_,
  pending_task_,        \* the OnReadDone task in the message loop, if any
  verity_written,       \* partitions whose hash tree and FEC are on the device
  output_object,        \* the action's output pipe: << >> or << plan >>
  trace,                \* what the verifier did to its collaborators, in order
  old_release, new_release,  \* arguments of HardwareAndroid::IsKernelUpdateValid
  error_code            \* << >>, or << the ErrorCode it returned >>

vars ==
  << input_object, vabc, dynamic_partitions, action_state, install_plan_,
     partition_index_, verifier_step_, partition_size_, offset_,
     filesystem_data_end_, cancelled_, buffer_, partition_fd_, hasher_,
     pending_task_, verity_written, output_object, trace,
     old_release, new_release, error_code >>

verifier_vars ==
  << input_object, vabc, dynamic_partitions, action_state, install_plan_,
     partition_index_, verifier_step_, partition_size_, offset_,
     filesystem_data_end_, cancelled_, buffer_, partition_fd_, hasher_,
     pending_task_, verity_written, output_object, trace >>

\* partition_fd_: null (set = FALSE), or a descriptor that is open or not.
\* |eof|: a read of this descriptor has reached the end of the device.
NoFd == [set |-> FALSE, open |-> FALSE, part |-> 0, side |-> "none",
         pos |-> 0, writable |-> FALSE, cow |-> FALSE, eof |-> FALSE]
NoHasher == [live |-> FALSE, data |-> << >>]
NoTask == [posted |-> FALSE, bytes_read |-> 0]
EmptyBuffer == [size |-> 0, data |-> << >>]

\* The verifier's fields and its outputs as one record.
Machine ==
  [action_state |-> action_state, install_plan_ |-> install_plan_,
   partition_index_ |-> partition_index_, verifier_step_ |-> verifier_step_,
   partition_size_ |-> partition_size_, offset_ |-> offset_,
   filesystem_data_end_ |-> filesystem_data_end_, cancelled_ |-> cancelled_,
   buffer_ |-> buffer_, partition_fd_ |-> partition_fd_, hasher_ |-> hasher_,
   pending_task_ |-> pending_task_, verity_written |-> verity_written,
   output_object |-> output_object, trace |-> trace]

Install(m) ==
  /\ action_state' = m.action_state
  /\ install_plan_' = m.install_plan_
  /\ partition_index_' = m.partition_index_
  /\ verifier_step_' = m.verifier_step_
  /\ partition_size_' = m.partition_size_
  /\ offset_' = m.offset_
  /\ filesystem_data_end_' = m.filesystem_data_end_
  /\ cancelled_' = m.cancelled_
  /\ buffer_' = m.buffer_
  /\ partition_fd_' = m.partition_fd_
  /\ hasher_' = m.hasher_
  /\ pending_task_' = m.pending_task_
  /\ verity_written' = m.verity_written
  /\ output_object' = m.output_object
  /\ trace' = m.trace
  /\ UNCHANGED << input_object, vabc, dynamic_partitions, old_release,
                  new_release, error_code >>

\* ------------------------------------------------------------- the trace
Ev(m, ev) ==
  [ev |-> ev, part |-> m.partition_index_, step |-> m.verifier_step_,
   dev |-> "", off |-> 0, len |-> 0, req |-> 0, ok |-> TRUE, code |-> "",
   data |-> << >>]

Log(m, e) == [m EXCEPT !.trace = Append(@, e)]

CurrentPartition(m) == m.install_plan_.partitions[m.partition_index_ + 1]

\* ------------------------------------------------- the verifier's methods
RECURSIVE StartPartitionHashing(_)
RECURSIVE ScheduleFileSystemRead(_)
RECURSIVE ReadVerityAndFooter(_)
RECURSIVE ReadVerityAndFooterLoop(_, _)
RECURSIVE FinishPartitionHashing(_)

\* processor_->ActionComplete(this, code)
ActionComplete(m, code) ==
  [Log(m, [Ev(m, "ActionComplete") EXCEPT !.code = code])
     EXCEPT !.action_state = "completed"]

\* UpdateProgress(progress) with progress = off / len.
UpdateProgress(m, num, den) ==
  Log(m, [Ev(m, "UpdateProgress") EXCEPT !.off = num, !.len = den])

SetOutputObjectOnSuccess_AnyCode(m, code, has_output_pipe) ==
  IF has_output_pipe
    THEN [m EXCEPT !.output_object = << m.install_plan_ >>]
    ELSE m

\* if (code == kSuccess && HasOutputPipe()) SetOutputObject(install_plan_)
SetOutputObjectOnSuccess(m, code, has_output_pipe) ==
  IF code = kSuccess /\ has_output_pipe
    THEN [m EXCEPT !.output_object = << m.install_plan_ >>]
    ELSE m

UnmapOnCleanup(m) == ~m.install_plan_.write_verity /\ vabc

Cleanup_KeepsDescriptor(m, code) ==
  LET m2 == IF UnmapOnCleanup(m)
              THEN Log(m, Ev(m, "UnmapAllPartitions"))
              ELSE m
  IN IF m2.cancelled_
       THEN {m2}
       ELSE { ActionComplete(
                UpdateProgress(SetOutputObjectOnSuccess(m2, code, pipe), 1, 1),
                code) : pipe \in BOOLEAN }

Cleanup_IgnoresCancelled(m, code) ==
  LET m1 == [m EXCEPT !.partition_fd_ = NoFd, !.buffer_ = EmptyBuffer]
      m2 == IF UnmapOnCleanup(m1)
              THEN Log(m1, Ev(m1, "UnmapAllPartitions"))
              ELSE m1
  IN { ActionComplete(
         UpdateProgress(SetOutputObjectOnSuccess(m2, code, pipe), 1, 1),
         code) : pipe \in BOOLEAN }

Cleanup(m, code) ==
  LET m1 == [m EXCEPT !.partition_fd_ = NoFd, !.buffer_ = EmptyBuffer]
      m2 == IF UnmapOnCleanup(m1)
              THEN Log(m1, Ev(m1, "UnmapAllPartitions"))
              ELSE m1
  IN IF m2.cancelled_
       THEN {m2}
       ELSE { ActionComplete(
                UpdateProgress(SetOutputObjectOnSuccess(m2, code, pipe), 1, 1),
                code) : pipe \in BOOLEAN }

ShouldWriteVerity_AnyStep(m) ==
  LET partition == CurrentPartition(m)
  IN /\ m.install_plan_.write_verity
     /\ (partition.hash_tree_size > 0 \/ partition.fec_size > 0)

ShouldWriteVerity(m) ==
  LET partition == CurrentPartition(m)
  IN /\ m.verifier_step_ = kVerifyTargetHash
     /\ m.install_plan_.write_verity
     /\ (partition.hash_tree_size > 0 \/ partition.fec_size > 0)

\* The result is a set of << machine, success >>.
InitializeFd(m, part_path, side) ==
  LET write_verity == ShouldWriteVerity(m)
      fd == [set |-> TRUE, open |-> FALSE, part |-> m.partition_index_,
             side |-> side, pos |-> 0, writable |-> write_verity,
             cow |-> FALSE, eof |-> FALSE]
      \* utils::SetBlockDeviceReadOnly(part_path, !write_verity): |len| is 1
      \* for read-only; a failure is only logged.
      m1(flipped) ==
        Log([m EXCEPT !.partition_fd_ = fd],
            [Ev(m, "SetBlockDeviceReadOnly")
               EXCEPT !.dev = part_path, !.ok = flipped,
                      !.len = IF write_verity THEN 0 ELSE 1])
  IN { << Log([m1(flipped) EXCEPT !.partition_fd_.open = ok],
              [Ev(m, "Open") EXCEPT !.dev = part_path, !.ok = ok,
                                    !.len = IF write_verity THEN 1 ELSE 0]),
          ok >> : ok \in BOOLEAN, flipped \in BOOLEAN }

InitializeFdVABC_AlwaysCow(m) ==
  LET partition == CurrentPartition(m)
      fd == [set |-> TRUE, open |-> TRUE, part |-> m.partition_index_,
             side |-> "target", pos |-> 0, writable |-> FALSE, cow |-> TRUE,
             eof |-> FALSE]
  IN { << Log([m EXCEPT !.partition_fd_ = IF ok THEN fd ELSE NoFd],
              [Ev(m, "OpenCowFd") EXCEPT !.dev = partition.source_path,
                                         !.ok = ok]),
          ok >> : ok \in BOOLEAN }

InitializeFdVABC(m) ==
  LET partition == CurrentPartition(m)
      fd == [set |-> TRUE, open |-> TRUE, part |-> m.partition_index_,
             side |-> "target", pos |-> 0, writable |-> FALSE, cow |-> TRUE,
             eof |-> FALSE]
  IN IF ~ShouldWriteVerity(m)
       THEN InitializeFd(
              Log(Log(m, Ev(m, "UnmapAllPartitions")),
                  Ev(m, "MapAllPartitions")),
              partition.readonly_target_path, "target")
       ELSE { << Log([m EXCEPT !.partition_fd_ = IF ok THEN fd ELSE NoFd,
                               !.partition_size_ =
                                  IF ok THEN partition.target_size ELSE @],
                     [Ev(m, "OpenCowFd") EXCEPT !.dev = partition.source_path,
                                                !.ok = ok]),
                 ok >> : ok \in BOOLEAN }

\* CHECK_LE(hash_tree_offset, fec_offset) aborts the process.
Abort(m) ==
  [Log(m, Ev(m, "abort")) EXCEPT !.action_state = "aborted",
                                 !.pending_task_ = NoTask]

FilesystemDataEnd(partition, partition_size) ==
  IF partition.hash_tree_offset # 0 THEN partition.hash_tree_offset
  ELSE IF partition.fec_offset # 0 THEN partition.fec_offset
  ELSE partition_size

\* The part of StartPartitionHashing after the descriptor is open.
StartHashingOpened(m) ==
  LET partition == CurrentPartition(m)
      m1 == [m EXCEPT !.buffer_ = [size |-> kReadFileBufferSize, data |-> << >>],
                      !.hasher_ = [live |-> TRUE, data |-> << >>],
                      !.offset_ = 0,
                      !.filesystem_data_end_ = m.partition_size_]
  IN IF ~(partition.hash_tree_offset <= partition.fec_offset)
       THEN { Abort(m1) }
       ELSE LET m2 == [m1 EXCEPT !.filesystem_data_end_ =
                         FilesystemDataEnd(partition, m.partition_size_)]
            IN IF ShouldWriteVerity(m2)
                 THEN UNION {
                   LET m3 == Log(m2, [Ev(m2, "VerityInit") EXCEPT !.ok = ok])
                   IN IF ok THEN ScheduleFileSystemRead(m3)
                            ELSE Cleanup(m3, kVerityCalculationError) :
                   ok \in BOOLEAN }
                 ELSE ScheduleFileSystemRead(m2)

IsDynamicPartition(name) == name \in dynamic_partitions

StartPartitionHashing(m) ==
  IF m.partition_index_ = Len(m.install_plan_.partitions)
    THEN IF m.install_plan_.untouched_dynamic_partitions # {}
           THEN UNION {
             LET m1 == Log(m, [Ev(m, "VerifyExtentsForUntouchedPartitions")
                                 EXCEPT !.ok = ok])
             IN IF ok THEN Cleanup(m1, kSuccess)
                      ELSE Cleanup(m1, kFilesystemVerifierError) :
             ok \in BOOLEAN }
           ELSE Cleanup(m, kSuccess)
    ELSE
      LET partition == CurrentPartition(m)
          source == m.verifier_step_ = kVerifySourceHash
          part_path == IF source THEN partition.source_path
                                 ELSE partition.target_path
          m0 == [m EXCEPT !.partition_size_ =
                   IF source THEN partition.source_size
                             ELSE partition.target_size]
          \* LOG(INFO) << "Hashing partition " ... " on device " << part_path
          m1 == Log(m0, [Ev(m0, "StartPartitionHashing")
                           EXCEPT !.dev = part_path, !.len = m0.partition_size_])
          Opened(rs) == UNION { IF r[2] THEN StartHashingOpened(r[1])
                                        ELSE Cleanup(r[1], kFilesystemVerifierError) :
                                r \in rs }
      IN IF /\ vabc
            /\ m.verifier_step_ = kVerifyTargetHash
            /\ IsDynamicPartition(partition.name)
           THEN Opened(InitializeFdVABC(m1))
           ELSE IF part_path = ""
                  THEN IF m1.partition_size_ = 0
                         THEN StartPartitionHashing(
                                [Log(m1, Ev(m1, "skip"))
                                   EXCEPT !.partition_index_ = @ + 1])
                         ELSE Cleanup(m1, kFilesystemVerifierError)
                  ELSE Opened(InitializeFd(m1, part_path,
                                IF source THEN "source" ELSE "target"))


\* partition_fd_->Read(buffer_.data(), count) at the descriptor's position:
\* -1, or the bytes that the device has from there on, at most |count|.  The
\* device is a block device of some length up to MaxDevSize, so a read is
\* short only where the device ends, and every later read returns 0.  The
\* bytes read are then in buffer_.  The result of Read is a set of
\* << machine, bytes_read >>.
ReadResults(fd, count) ==
  {-1, 0} \cup
  IF fd.eof THEN {}
  ELSE { k * Granule : k \in { j \in 1..(count \div Granule) :
                                 fd.pos + j * Granule <= MaxDevSize } }

Read(m, count) ==
  LET fd == m.partition_fd_
      partition == CurrentPartition(m)
      written == fd.part \in m.verity_written
      Data(n) == [j \in 1..(n \div Granule) |->
                    DeviceAtom(partition, fd.part, fd.side,
                               (fd.pos \div Granule) + j - 1, written)]
  IN { << Log([m EXCEPT !.partition_fd_.pos = IF n > 0 THEN @ + n ELSE @,
                        !.partition_fd_.eof = @ \/ (0 <= n /\ n < count),
                        !.buffer_.data = IF n > 0 THEN Data(n) ELSE @],
              [Ev(m, "Read") EXCEPT !.dev = fd.side, !.off = fd.pos,
                                    !.len = n, !.req = count]),
          n >> : n \in ReadResults(fd, count) }

Seek(m, offset) == [m EXCEPT !.partition_fd_.pos = offset]

\* hasher_->Update(buffer_.data(), bytes_read)
HasherUpdate(m, bytes_read) ==
  { << Log([m EXCEPT !.hasher_.data =
                IF ok THEN @ \o SubSeq(m.buffer_.data, 1, bytes_read \div Granule)
                      ELSE @],
           [Ev(m, "HasherUpdate") EXCEPT !.len = bytes_read, !.ok = ok,
                 !.off = m.partition_fd_.pos - bytes_read]),
       ok >> : ok \in BOOLEAN }

BytesToRead_ToPartitionEnd(m) ==
  MinSizeU64(m.buffer_.size, SubU64(m.partition_size_, m.offset_))

BytesToRead(m) ==
  MinSizeU64(m.buffer_.size, SubU64(m.filesystem_data_end_, m.offset_))

ScheduleFileSystemRead(m) ==
  LET bytes_to_read == BytesToRead(m)
  IN IF bytes_to_read = 0
       THEN ReadVerityAndFooter(m)
       ELSE UNION {
         IF r[2] < 0
           THEN Cleanup(r[1], kError)
           ELSE { Log([r[1] EXCEPT !.pending_task_ =
                         [posted |-> TRUE, bytes_read |-> r[2]]],
                      [Ev(r[1], "PostTask") EXCEPT !.len = r[2]]) } :
         r \in Read(Seek(m, m.offset_), bytes_to_read) }

ReadVerityAndFooterLoop(m, bytes_to_read) ==
  IF IsZeroU64(bytes_to_read)
    THEN FinishPartitionHashing(m)
    ELSE UNION {
      IF r[2] <= 0
        THEN Cleanup(r[1], kFilesystemVerifierError)
        ELSE UNION {
          IF h[2] THEN ReadVerityAndFooterLoop(h[1], bytes_to_read - r[2])
                  ELSE Cleanup(h[1], kError) :
          h \in HasherUpdate(r[1], r[2]) } :
      r \in Read(m, MinSizeU64(m.buffer_.size, bytes_to_read)) }

VerityFinalizeFailureCode_AsVerity == kVerityCalculationError
\* Cleanup(ErrorCode::kFilesystemVerifierError) after a failed Finalize.
VerityFinalizeFailureCode == kFilesystemVerifierError

ReadVerityAndFooter(m) ==
  LET Sweep(m1) ==
        ReadVerityAndFooterLoop(
          Seek(m1, m1.filesystem_data_end_),
          SubU64(m1.partition_size_, m1.filesystem_data_end_))
  IN IF ShouldWriteVerity(m)
       THEN UNION {
         LET m1 == Log(m, [Ev(m, "VerityFinalize") EXCEPT !.ok = ok])
         IN IF ok
              THEN Sweep([m1 EXCEPT !.verity_written =
                                      @ \cup {m.partition_index_}])
              ELSE Cleanup(m1, VerityFinalizeFailureCode) :
         ok \in BOOLEAN }
       ELSE Sweep(m)

\* The progress of OnReadDone, as a fraction of granule counts:
\* (offset_ / partition_size_ + partition_index_) / partitions.size().
\* A denominator of 0 is the division by partition_size_ = 0.
ProgressNum(m) ==
  (m.offset_ + m.partition_index_ * m.partition_size_) \div Granule
ProgressDen(m) ==
  (m.partition_size_ \div Granule) * Len(m.install_plan_.partitions)

OnReadDone(m, bytes_read) ==
  IF m.cancelled_ THEN Cleanup(m, kError)
  ELSE IF bytes_read = 0 THEN Cleanup(m, kFilesystemVerifierError)
  ELSE UNION {
    IF ~h[2] THEN Cleanup(h[1], kError)
    ELSE
      LET m1 == UpdateProgress(h[1], ProgressNum(h[1]), ProgressDen(h[1]))
          Advance(m2) ==
            LET m3 == [m2 EXCEPT !.offset_ = @ + bytes_read]
            IN IF m3.offset_ = m3.filesystem_data_end_
                 THEN ReadVerityAndFooter(m3)
                 ELSE ScheduleFileSystemRead(m3)
      IN IF ShouldWriteVerity(m1)
           THEN UNION {
             LET m2 == Log(m1, [Ev(m1, "VerityUpdate")
                                  EXCEPT !.off = m1.offset_,
                                         !.len = bytes_read, !.ok = ok])
             IN IF ok THEN Advance(m2)
                      ELSE Cleanup(m2, kVerityCalculationError) :
             ok \in BOOLEAN }
           ELSE Advance(m1) :
    h \in HasherUpdate(m, bytes_read) }

TargetMismatchFullPayloadCode == kNewRootfsVerificationError
SourceMismatchCode_AsTarget == kNewRootfsVerificationError
SourceMismatchCode == kDownloadStateInitializationError
SourceMatchCode_Success == kSuccess
SourceMatchCode == kNewRootfsVerificationError

FinishPartitionHashing(m) ==
  UNION {
    IF ~ok
      THEN Cleanup(Log(m, [Ev(m, "HasherFinalize") EXCEPT !.ok = FALSE]), kError)
      ELSE
        LET partition == CurrentPartition(m)
            raw_hash == Digest(m.hasher_.data)
            expected == IF m.verifier_step_ = kVerifyTargetHash
                          THEN partition.target_hash
                          ELSE partition.source_hash
            m1 == Log(m, [Ev(m, "compare") EXCEPT !.ok = (expected = raw_hash),
                                                  !.data = m.hasher_.data])
            Next(m2) ==
              StartPartitionHashing(
                [m2 EXCEPT !.hasher_ = NoHasher, !.buffer_ = EmptyBuffer,
                           !.partition_fd_ = NoFd])
        IN IF m.verifier_step_ = kVerifyTargetHash
             THEN IF partition.target_hash # raw_hash
                    THEN IF partition.source_hash = EmptyHash
                           THEN Cleanup(m1, TargetMismatchFullPayloadCode)
                           ELSE Next([m1 EXCEPT !.verifier_step_ =
                                                   kVerifySourceHash])
                    ELSE Next([m1 EXCEPT !.partition_index_ = @ + 1])
             ELSE IF partition.source_hash # raw_hash
                    THEN Cleanup(m1, SourceMismatchCode)
                    ELSE Cleanup(m1, SourceMatchCode) :
    ok \in BOOLEAN }

\* ------------------------------------------------------------ the actions
Turn(m, handler) == Log(m, [Ev(m, "turn") EXCEPT !.dev = handler])

\* ~ScopedActionCompleter(): ActionComplete(code) unless told not to.
ScopedActionCompleter(m, should_complete, code) ==
  IF should_complete THEN ActionComplete(m, code) ELSE m

Running(m) ==
  IF m.action_state = "created" THEN [m EXCEPT !.action_state = "running"]
  ELSE m

PerformActionResults(m) ==
  IF input_object = << >>
    THEN { ScopedActionCompleter(m, TRUE, kError) }
    ELSE
      LET m1 == [m EXCEPT !.install_plan_ = input_object[1]]
      IN IF m1.install_plan_.partitions = << >>
           THEN { ScopedActionCompleter(
                    SetOutputObjectOnSuccess(m1, kSuccess, pipe), TRUE, kSuccess) :
                  pipe \in BOOLEAN }
           ELSE { ScopedActionCompleter(Running(r), FALSE, kError) :
                  r \in StartPartitionHashing(m1) }

PerformAction ==
  /\ action_state = "created"
  /\ \E r \in PerformActionResults(Turn(Machine, "PerformAction")) : Install(r)

\* The message loop runs the posted OnReadDone task.
RunOnReadDone ==
  /\ pending_task_.posted
  /\ action_state \in {"running", "terminated"}
  /\ \E r \in OnReadDone(
               Turn([Machine EXCEPT !.pending_task_ = NoTask], "OnReadDone"),
               pending_task_.bytes_read) :
       Install(r)

TerminateProcessingResults_NoFlag(m) ==
  { [m EXCEPT !.pending_task_ = IF removed THEN NoTask ELSE @,
              !.action_state = "terminated"] : removed \in BOOLEAN }

\* CancelTask returns whether the task was removed; the verifier does not
\* look at the result.
TerminateProcessingResults(m) ==
  UNION { Cleanup([Log(m, [Ev(m, "CancelTask") EXCEPT !.ok = removed])
                     EXCEPT !.pending_task_ = IF removed THEN NoTask ELSE @,
                            !.cancelled_ = TRUE,
                            !.action_state = "terminated"], kSuccess) :
          removed \in BOOLEAN }

TerminateProcessing ==
  /\ action_state = "running"
  /\ \E r \in TerminateProcessingResults(Turn(Machine, "TerminateProcessing")) :
       Install(r)

\* Which partitions of a plan of n partitions are dynamic in the target
\* slot: none, the last one, or all of them.
DynamicSets(n) == {{}, {n - 1} \cap (0..(n - 1)), 0..(n - 1)}

\* The verifier after construction.
Constructed ==
  /\ action_state = "created"
  /\ install_plan_ = EmptyPlan
  /\ partition_index_ = 0
  /\ verifier_step_ = kVerifyTargetHash
  /\ partition_size_ = 0
  /\ offset_ = 0
  /\ filesystem_data_end_ = 0
  /\ cancelled_ = FALSE
  /\ buffer_ = EmptyBuffer
  /\ partition_fd_ = NoFd
  /\ hasher_ = NoHasher
  /\ pending_task_ = NoTask
  /\ verity_written = {}
  /\ output_object = << >>
  /\ trace = << >>

\* IsKernelUpdateValid is not called.
NotCalled ==
  old_release = << >> /\ new_release = << >> /\ error_code = << >>

Init ==
  /\ \/ /\ input_object = << >>
        /\ vabc = FALSE
        /\ dynamic_partitions = {}
     \/ /\ \E p \in InstallPlans : input_object = << p >>
        /\ vabc \in BOOLEAN
        /\ dynamic_partitions \in
             IF vabc THEN DynamicSets(Len(input_object[1].partitions))
                     ELSE {{}}
  /\ Constructed
  /\ NotCalled

Next == PerformAction \/ RunOnReadDone \/ TerminateProcessing

Spec == Init /\ [][Next]_vars

\* ------------------------------------- HardwareAndroid::IsKernelUpdateValid
\* A release string is the empty string << >> or << w, x, y, tail >> for the
\* text "w.x.y" followed by |tail|.
GkiTails == {"-android12-0", "-android12-0-something"}
NonGkiTails == {"-not-gki"}
ReleaseStrings ==
  { << >> } \cup
  { << w, x, y, tail >> :
      w \in 0..MaxVersion, x \in 0..MaxPatchLevel, y \in 0..MaxSubLevel,
      tail \in GkiTails \cup NonGkiTails }

\* std::optional: << >> is std::nullopt.
HasValue(opt) == opt # << >>

\* KernelRelease::Parse(release, true /* allow_suffix */): the release
\* w.x.y-android<release>-<generation>, with or without a suffix.
KernelReleaseParse(release) ==
  IF release # << >> /\ release[4] \in GkiTails
    THEN << [version |-> release[1], patch_level |-> release[2],
             sub_level |-> release[3],
             kmi |-> "android12-0"] >>
    ELSE << >>

\* (version, patch_level, sub_level) of a is below that of b.
ReleaseLess(a, b) ==
  \/ a.version < b.version
  \/ a.version = b.version /\ a.patch_level < b.patch_level
  \/ /\ a.version = b.version /\ a.patch_level = b.patch_level
     /\ a.sub_level < b.sub_level

\* android::kver::IsKernelUpdateValid(old, new): the values it can return.
\* An old kernel that is not GKI is not checked; a GKI kernel may not go
\* back.  An update from GKI to a build without GKI is not exercised by
\* the callers' tests: either result.
KverIsKernelUpdateValid(old_kernel_release, new_kernel_release) ==
  IF ~HasValue(old_kernel_release) THEN {TRUE}
  ELSE IF ~HasValue(new_kernel_release) THEN BOOLEAN
  ELSE { ~ReleaseLess(new_kernel_release[1], old_kernel_release[1]) }

IsKernelUpdateValid_ParsesEmpty(old, new) ==
  LET new_kernel_release == KernelReleaseParse(new)
  IN IF ~HasValue(new_kernel_release)
       THEN { kDownloadManifestParseError }
       ELSE { IF valid THEN kSuccess ELSE kPayloadTimestampError :
              valid \in KverIsKernelUpdateValid(KernelReleaseParse(old),
                                                new_kernel_release) }

\* The ErrorCodes that IsKernelUpdateValid(old_release, new_release) can
\* return.
IsKernelUpdateValid(old, new) ==
  LET new_kernel_release == IF new = << >> THEN << >>
                                           ELSE KernelReleaseParse(new)
  IN IF new # << >> /\ ~HasValue(new_kernel_release)
       THEN { kDownloadManifestParseError }
       ELSE { IF valid THEN kSuccess ELSE kPayloadTimestampError :
              valid \in KverIsKernelUpdateValid(KernelReleaseParse(old),
                                                new_kernel_release) }

CallIsKernelUpdateValid ==
  /\ error_code = << >>
  /\ \E code \in IsKernelUpdateValid(old_release, new_release) :
       error_code' = << code >>
  /\ UNCHANGED << old_release, new_release >>
  /\ UNCHANGED verifier_vars

InitKernel ==
  /\ input_object = << >> /\ vabc = FALSE /\ dynamic_partitions = {}
  /\ Constructed
  /\ old_release \in ReleaseStrings
  /\ new_release \in ReleaseStrings
  /\ error_code = << >>

NextKernel == CallIsKernelUpdateValid

SpecKernel == InitKernel /\ [][NextKernel]_vars


\* ------------------------------------------------------ reading the trace
Idx(ev) == { i \in 1..Len(trace) : trace[i].ev = ev }
CompleteIdx == Idx("ActionComplete")
CompletedWith(code) == \E i \in CompleteIdx : trace[i].code = code
CancelIdx ==
  { i \in Idx("turn") : trace[i].dev = "TerminateProcessing" }
PartitionAt(i) == install_plan_.partitions[trace[i].part + 1]
IsTargetEvent(i) == trace[i].step = kVerifyTargetHash
IsSourceEvent(i) == trace[i].step = kVerifySourceHash
\* Device I/O of the verifier.
IoIdx == Idx("Open") \cup Idx("OpenCowFd") \cup Idx("Read")
\* Nothing runs any more: no handler is pending.
RunEnded == action_state # "created" /\ ~pending_task_.posted
\* Event j completes the action with |code| right after event i.
TerminalAfter(i, code) ==
  \E j \in CompleteIdx :
    /\ j > i /\ trace[j].code = code
    /\ \A k \in (i + 1)..(j - 1) :
         trace[k].ev \in {"UnmapAllPartitions", "UpdateProgress"}

\* ------------------------------------------------------------------- C1
\* C1: in every run that is not cancelled ActionComplete is invoked exactly
\* once, in every run at most once, and after it no progress callback is
\* emitted, no read is issued and no read task is pending.
C1_ActionCompleteExactlyOnce ==
  /\ Cardinality(CompleteIdx) <= 1
  /\ (RunEnded /\ ~cancelled_) => Cardinality(CompleteIdx) = 1
  /\ \A i \in CompleteIdx :
       /\ ~pending_task_.posted
       /\ \A j \in (i + 1)..Len(trace) :
            trace[j].ev \notin {"UpdateProgress", "Read", "PostTask"}

\* ------------------------------------------------------------------- C2
\* C2: for a plan that satisfies the plan invariants, kSuccess is reached
\* only if every partition that was not skipped as empty had a target digest
\* equal to target_hash, and never after a target digest mismatch.
TargetVerified(p) ==
  \E i \in Idx("compare") : trace[i].part = p /\ IsTargetEvent(i) /\ trace[i].ok
SkippedAsEmpty(p) == \E i \in Idx("skip") : trace[i].part = p
TargetMismatched ==
  \E i \in Idx("compare") : IsTargetEvent(i) /\ ~trace[i].ok

C2_SuccessOnlyIfTargetsMatch ==
  (PlanInvariants(install_plan_) /\ CompletedWith(kSuccess)) =>
    /\ \A p \in 0..(Len(install_plan_.partitions) - 1) :
         SkippedAsEmpty(p) \/ TargetVerified(p)
    /\ ~TargetMismatched

C2_Witness ==
  /\ PlanInvariants(install_plan_) /\ CompletedWith(kSuccess)
  /\ Len(install_plan_.partitions) = 2
  /\ TargetVerified(0) /\ TargetVerified(1)

\* ------------------------------------------------------------------- C3
\* C3: a target mismatch with empty source_hash ends the run with
\* kNewRootfsVerificationError; in the source step a matching digest ends it
\* with kNewRootfsVerificationError and a mismatching one with
\* kDownloadStateInitializationError; a run that ends on a comparison ends
\* with no other code.
C3_MismatchClassification ==
  \A i \in Idx("compare") :
    /\ (IsTargetEvent(i) /\ ~trace[i].ok /\ PartitionAt(i).source_hash = EmptyHash)
         => TerminalAfter(i, kNewRootfsVerificationError)
    /\ (IsSourceEvent(i) /\ trace[i].ok)
         => TerminalAfter(i, kNewRootfsVerificationError)
    /\ (IsSourceEvent(i) /\ ~trace[i].ok)
         => TerminalAfter(i, kDownloadStateInitializationError)
    /\ Cardinality(CompleteIdx) <= 1

C3_Witness ==
  \E i \in Idx("compare") :
    /\ IsSourceEvent(i) /\ ~trace[i].ok
    /\ CompletedWith(kDownloadStateInitializationError)
    /\ \E j \in Idx("compare") : j < i /\ IsTargetEvent(j) /\ ~trace[j].ok

\* ------------------------------------------------------------------- C4
\* C4: after the target digest of partition i mismatched with a non-empty
\* source_hash, partition_index stays i, the step is VerifySource, the next
\* device I/O is on the source device of partition i, and no partition with
\* a greater index is opened or read.
C4_SourceOfSamePartition ==
  \A i \in Idx("compare") :
    (IsTargetEvent(i) /\ ~trace[i].ok /\ PartitionAt(i).source_hash # EmptyHash)
      => /\ \A j \in (i + 1)..Len(trace) :
              /\ trace[j].part = trace[i].part
              /\ trace[j].step = kVerifySourceHash
         /\ \A j \in IoIdx :
              (j > i /\ \A k \in IoIdx : k > i => j <= k)
                => trace[j].dev \in {"source_path", "source"}
         /\ \A j \in IoIdx : j > i => trace[j].part <= trace[i].part


\* ------------------------------------------------------------------- C5
\* C5: at every hash comparison, of either step, the hashed bytes are the
\* bytes of the step's device at [0, partition_size), in increasing offset
\* order, each once, and none at or beyond partition_size.
StepSide(i) == IF IsTargetEvent(i) THEN "target" ELSE "source"
StepSize(i) ==
  IF IsTargetEvent(i) THEN PartitionAt(i).target_size
                      ELSE PartitionAt(i).source_size
FinalizedBefore(i) ==
  \E k \in Idx("VerityFinalize") :
    k < i /\ trace[k].part = trace[i].part /\ trace[k].ok

C5_HashedBytesAreThePartition ==
  \A i \in Idx("compare") :
    trace[i].data =
      DeviceContent(PartitionAt(i), trace[i].part, StepSide(i), StepSize(i),
                    FinalizedBefore(i))

C5_Witness ==
  \E i, j \in Idx("compare") :
    /\ i < j /\ trace[i].part = trace[j].part
    /\ IsTargetEvent(i) /\ FinalizedBefore(i) /\ Len(trace[i].data) = MaxGranules
    /\ IsSourceEvent(j) /\ Len(trace[j].data) > 0

\* ------------------------------------------------------------------- C6
\* C6: for a partition whose verity is written, a read that covers an offset
\* at or beyond filesystem_data_end is issued only after the verity writer's
\* Finalize returned successfully.
MinOf(S) == CHOOSE x \in S : \A y \in S : x <= y
DataEnd(p, size) ==
  MinOf({size} \cup ({p.hash_tree_offset, p.fec_offset} \ {0}))
VerityIsWritten(i) ==
  /\ IsTargetEvent(i)
  /\ install_plan_.write_verity
  /\ (PartitionAt(i).hash_tree_size > 0 \/ PartitionAt(i).fec_size > 0)
ReadsPastDataEnd(j) ==
  trace[j].off + trace[j].req
    > DataEnd(PartitionAt(j), PartitionAt(j).target_size)

C6_VerityAreaReadAfterFinalize ==
  \A j \in Idx("Read") :
    (VerityIsWritten(j) /\ ReadsPastDataEnd(j)) => FinalizedBefore(j)

C6_Witness ==
  \E j \in Idx("Read") :
    VerityIsWritten(j) /\ ReadsPastDataEnd(j) /\ trace[j].len > 0

\* ------------------------------------------------------------------- C7
\* C7: with a non-empty untouched_dynamic_partitions, kSuccess is reached
\* only after VerifyExtentsForUntouchedPartitions returned true, and a false
\* result ends the run with kFilesystemVerifierError; for every plan.
C7_ExtentsCheckedBeforeSuccess ==
  (action_state # "created" /\ input_object # << >>
     /\ input_object[1].untouched_dynamic_partitions # {}) =>
    /\ \A i \in CompleteIdx :
         trace[i].code = kSuccess =>
           \E j \in Idx("VerifyExtentsForUntouchedPartitions") :
             j < i /\ trace[j].ok
    /\ \A j \in Idx("VerifyExtentsForUntouchedPartitions") :
         ~trace[j].ok => TerminalAfter(j, kFilesystemVerifierError)

\* ------------------------------------------------------------------- C8
\* C8: the output object is set only on kSuccess of a run that was not
\* cancelled, it is the input plan, the verifier's copy of the plan is never
\* modified, and no output is set on failure or cancellation.
C8_OutputIsInputOnSuccessOnly ==
  /\ output_object # << >> =>
       (CompletedWith(kSuccess) /\ ~cancelled_ /\ output_object = input_object)
  /\ (action_state # "created" /\ input_object # << >>) =>
       install_plan_ = input_object[1]
  /\ (cancelled_ \/ \E i \in CompleteIdx : trace[i].code # kSuccess) =>
       output_object = << >>

C8_Witness ==
  /\ output_object # << >>
  /\ Len(output_object[1].partitions) = MaxPartitions
  /\ CompletedWith(kSuccess)

\* ------------------------------------------------------------------- C9
\* C9: after TerminateProcessing, ActionComplete is never invoked, no output
\* object is set and no progress is emitted, also when the posted read task
\* still runs OnReadDone.
TurnsAfter(c, handler) ==
  { j \in Idx("turn") : j > c /\ trace[j].dev = handler }

C9_CancelSuppressesOutcome ==
  \A c \in CancelIdx :
    /\ \A j \in (c + 1)..Len(trace) :
         trace[j].ev \notin {"ActionComplete", "UpdateProgress"}
    /\ output_object = << >>

C9_Witness ==
  \E c \in CancelIdx : TurnsAfter(c, "OnReadDone") # {}

\* ------------------------------------------------------------------ C10
\* C10: after TerminateProcessing at most one further chunk is read from
\* the device, fed to the hasher or fed to the verity writer.
ChunksAfter(c, ev) == { j \in Idx(ev) : j > c }

C10_AtMostOneChunkAfterCancel ==
  \A c \in CancelIdx :
    \A ev \in {"Read", "HasherUpdate", "VerityUpdate"} :
      Cardinality(ChunksAfter(c, ev)) <= 1

C10_Witness ==
  \E c \in CancelIdx :
    /\ TurnsAfter(c, "OnReadDone") # {}
    /\ \E j \in Idx("HasherUpdate") : j < c /\ trace[j].part = trace[c].part
    /\ partition_fd_ = NoFd /\ buffer_ = EmptyBuffer

\* ------------------------------------------------------------------ C11
\* C11: the progress values emitted during a run are non-decreasing, for
\* every plan and outcome, also when a target mismatch switches to the
\* VerifySource step of the same partition.  (A progress value is off / len;
\* values with len = 0 are left to C18.)
ProgressIdx == Idx("UpdateProgress")
ProgressLeq(i, j) == trace[i].off * trace[j].len <= trace[j].off * trace[i].len

C11_ProgressNonDecreasing ==
  \A i, j \in ProgressIdx :
    (i < j /\ trace[i].len > 0 /\ trace[j].len > 0) => ProgressLeq(i, j)

\* ------------------------------------------------------------------ C12
\* C12: every ActionComplete, with kSuccess or with a failure code, is
\* preceded by a progress value of exactly 1.0 that is the last progress
\* value of the run, also the kSuccess of a plan with no partitions.
IsOne(j) == trace[j].len > 0 /\ trace[j].off = trace[j].len

C12_TerminalAfterFullProgress ==
  \A i \in CompleteIdx :
    \E j \in ProgressIdx :
      /\ j < i /\ IsOne(j)
      /\ \A k \in ProgressIdx : k <= j

\* ------------------------------------------------------------------ C13
\* C13: in every state after a terminal outcome (success or any failure) or
\* after TerminateProcessing, partition_fd_ is null and buffer_ is empty.
C13_DescriptorAndBufferReleased ==
  (CompleteIdx # {} \/ CancelIdx # {}) =>
    (partition_fd_ = NoFd /\ buffer_ = EmptyBuffer)

\* A run cancelled while a descriptor was open and a chunk was in the buffer.
C13_Witness ==
  \E c \in CancelIdx :
    /\ \E j \in Idx("Open") : j < c /\ trace[j].ok
    /\ \E j \in Idx("Read") : j < c /\ trace[j].len > 0
    /\ partition_fd_ = NoFd /\ buffer_ = EmptyBuffer

\* ------------------------------------------------------------------ C14
\* C14: whichever descriptor-selection branch applies, a partition and step
\* whose resolved part_path is empty is skipped without any open or read
\* when its resolved partition_size is 0, and processing continues with the
\* next partition; with partition_size > 0 the run ends with
\* kFilesystemVerifierError.  A plan whose first partition is empty and whose
\* second partition verifies ends in kSuccess.
StageIdx == Idx("StartPartitionHashing")

C14_SkipEmptyPartition ==
  /\ \A i \in StageIdx :
       trace[i].dev = "" =>
         IF trace[i].len = 0
           THEN /\ Len(trace) >= i + 2
                /\ trace[i + 1].ev = "skip"
                /\ trace[i + 2].part = trace[i].part + 1
           ELSE TerminalAfter(i, kFilesystemVerifierError)
  /\ ( /\ Len(install_plan_.partitions) = 2
       /\ install_plan_.untouched_dynamic_partitions = {}
       /\ install_plan_.partitions[1].target_path = ""
       /\ install_plan_.partitions[1].target_size = 0
       /\ TargetVerified(1) )
       => (SkippedAsEmpty(0) /\ CompletedWith(kSuccess))

\* ------------------------------------------------------------------ C15
\* C15: with write_verity, a partition with a hash tree and no FEC
\* (hash_tree_offset > 0, hash_tree_size > 0, fec_offset = 0) is processed
\* without aborting: filesystem_data_end is hash_tree_offset, the verity
\* writer is finalized before any read at or beyond it, and a matching
\* digest of the only partition gives kSuccess.
HashTreeWithoutFec(p) ==
  p.hash_tree_offset > 0 /\ p.hash_tree_size > 0 /\ p.fec_offset = 0

C15_HashTreeWithoutFec ==
  \A i \in StageIdx :
    ( /\ install_plan_.write_verity
      /\ IsTargetEvent(i)
      /\ HashTreeWithoutFec(PartitionAt(i)) ) =>
      /\ action_state # "aborted"
      /\ \A j \in Idx("abort") : trace[j].part # trace[i].part
      /\ (partition_index_ = trace[i].part /\ hasher_.live)
           => filesystem_data_end_ = PartitionAt(i).hash_tree_offset
      /\ \A j \in Idx("Read") :
           ( /\ j > i /\ trace[j].part = trace[i].part
             /\ trace[j].off + trace[j].req > PartitionAt(i).hash_tree_offset )
             => FinalizedBefore(j)
      /\ ( /\ Len(install_plan_.partitions) = 1
           /\ install_plan_.untouched_dynamic_partitions = {}
           /\ TargetVerified(trace[i].part) )
           => CompletedWith(kSuccess)

\* ------------------------------------------------------------------ C16
\* C16: a failure of the verity writer ends the run: a failing Init with
\* kVerityCalculationError before any read of the partition, a failing
\* Update with kVerityCalculationError, a failing Finalize with
\* kFilesystemVerifierError before any byte at or beyond filesystem_data_end
\* is read or hashed.
SamePartition(i, j) == trace[i].part = trace[j].part
HashesPastDataEnd(j) ==
  trace[j].off + trace[j].len
    > DataEnd(PartitionAt(j), PartitionAt(j).target_size)

C16_VerityFailures ==
  /\ \A i \in Idx("VerityInit") :
       ~trace[i].ok =>
         /\ TerminalAfter(i, kVerityCalculationError)
         /\ \A j \in Idx("Read") : ~SamePartition(i, j)
  /\ \A i \in Idx("VerityUpdate") :
       ~trace[i].ok => TerminalAfter(i, kVerityCalculationError)
  /\ \A i \in Idx("VerityFinalize") :
       ~trace[i].ok =>
         /\ TerminalAfter(i, kFilesystemVerifierError)
         /\ \A j \in Idx("Read") : SamePartition(i, j) => ~ReadsPastDataEnd(j)
         /\ \A j \in Idx("HasherUpdate") :
              SamePartition(i, j) => ~HashesPastDataEnd(j)

\* Finalize fails after the data of the partition was read and hashed.
C16_Witness ==
  \E i \in Idx("VerityFinalize") :
    /\ ~trace[i].ok
    /\ CompletedWith(kFilesystemVerifierError)
    /\ \E j \in Idx("HasherUpdate") :
         j < i /\ SamePartition(i, j) /\ trace[j].ok /\ trace[j].len > 0
    /\ \E j \in Idx("VerityUpdate") : j < i /\ SamePartition(i, j) /\ trace[j].ok

\* ------------------------------------------------------------------ C17
\* C17: a source device is opened or read only in the VerifySource step of
\* a partition whose target digest mismatched just before and whose
\* source_hash is non-empty; no source device is opened or read in a run
\* without such a mismatch.
SourceIoIdx ==
  { j \in Idx("Open") : trace[j].dev = "source_path" } \cup
  { j \in Idx("Read") : trace[j].dev = "source" }
TargetMismatchedBefore(j) ==
  \E i \in Idx("compare") :
    /\ i < j /\ SamePartition(i, j)
    /\ IsTargetEvent(i) /\ ~trace[i].ok
    /\ PartitionAt(i).source_hash # EmptyHash

C17_SourceOnlyAfterTargetMismatch ==
  \A j \in SourceIoIdx : IsSourceEvent(j) /\ TargetMismatchedBefore(j)

\* ------------------------------------------------------------------ C18
\* C18: every progress value lies in [0.0, 1.0], in both steps, and is never
\* undefined: partition_size is never 0 when the value is computed.
ProgressDefined(i) == trace[i].len > 0
ProgressInUnitInterval(i) == 0 <= trace[i].off /\ trace[i].off <= trace[i].len

C18_ProgressInUnitInterval ==
  \A i \in ProgressIdx : ProgressDefined(i) /\ ProgressInUnitInterval(i)

\* ------------------------------------------------------------------ C20
\* C20: every partition begins in the VerifyTarget step: when
\* partition_index has been advanced to i, by a digest match or by the skip
\* of an empty partition, also while the verifier is in the VerifySource
\* step, partition i is resolved, opened and hashed first in VerifyTarget.
FirstStageOfPartition(i) ==
  \A k \in StageIdx : k < i => ~SamePartition(k, i)

C20_PartitionBeginsInVerifyTarget ==
  \A i \in StageIdx : FirstStageOfPartition(i) => IsTargetEvent(i)

\* ------------------------------------------------------------------ C19
\* C19: IsKernelUpdateValid(old_release, new_release) returns
\* kDownloadManifestParseError whenever new_release is non-empty and not a
\* valid GKI release, whatever old_release is; otherwise kSuccess for an old
\* release that is not GKI (with an empty or a GKI new release) and for an
\* equal or newer GKI release, and kPayloadTimestampError for a sub-level or
\* KMI-version downgrade; it returns no other code.
ValidGki(release) == release # << >> /\ release[4] \in GkiTails
KmiVersionDowngrade(old, new) ==
  \/ new[1] < old[1]
  \/ new[1] = old[1] /\ new[2] < old[2]
SubLevelDowngrade(old, new) ==
  new[1] = old[1] /\ new[2] = old[2] /\ new[3] < old[3]

C19_KernelUpdateClassification ==
  error_code # << >> =>
    LET code == error_code[1]
        invalid_new == new_release # << >> /\ ~ValidGki(new_release)
    IN /\ code \in {kSuccess, kDownloadManifestParseError,
                    kPayloadTimestampError}
       /\ invalid_new => code = kDownloadManifestParseError
       /\ ~invalid_new => code # kDownloadManifestParseError
       /\ (~invalid_new /\ ~ValidGki(old_release)) => code = kSuccess
       /\ (ValidGki(old_release) /\ ValidGki(new_release)) =>
            code = IF \/ KmiVersionDowngrade(old_release, new_release)
                      \/ SubLevelDowngrade(old_release, new_release)
                     THEN kPayloadTimestampError
                     ELSE kSuccess

\* A KMI-version downgrade to a higher sub-level was rejected.
C19_Witness ==
  /\ error_code = << kPayloadTimestampError >>
  /\ ValidGki(old_release) /\ ValidGki(new_release)
  /\ KmiVersionDowngrade(old_release, new_release)
  /\ new_release[3] > old_release[3]

\* ------------------------------------------------------------------ C21
\* C21: while a partition is being hashed, filesystem_data_end is
\* min(hash_tree_offset if > 0, fec_offset if > 0, partition_size), with
\* partition_size the size of the current step, and
\* 0 <= offset <= filesystem_data_end <= partition_size.
BeingHashed == action_state = "running" /\ pending_task_.posted

C21_DataEndWithinPartition ==
  BeingHashed =>
    /\ filesystem_data_end_ =
         DataEnd(install_plan_.partitions[partition_index_ + 1], partition_size_)
    /\ 0 <= offset_
    /\ offset_ <= filesystem_data_end_
    /\ filesystem_data_end_ <= partition_size_

\* ------------------------------------------------------------------ C22
\* C22: a stage uses the descriptor of OpenCowFd(name, source_path, true),
\* with read size target_size, exactly when snapshot compression is in use,
\* the step is VerifyTarget, the partition is dynamic and verity will be
\* written; with the first three but no verity to write, UnmapAllPartitions
\* and then MapAllPartitions are called before readonly_target_path is
\* opened read-only; otherwise the resolved part_path is opened, writable
\* iff verity will be written in this step.  A failed open or a null COW
\* descriptor ends the run with kFilesystemVerifierError; a failure to set
\* the device's read-only flag does not.
SnapshotStage(i) ==
  vabc /\ IsTargetEvent(i) /\ IsDynamicPartition(trace[i].part)
IsCall(j, ev, dev) == trace[j].ev = ev /\ trace[j].dev = dev
FailedOpenIsFatal(j) ==
  ~trace[j].ok => TerminalAfter(j, kFilesystemVerifierError)
\* Events j and j + 1 open |path| with a normal reader.
OpensNormally(j, path, writable) ==
  /\ IsCall(j, "SetBlockDeviceReadOnly", path)
  /\ trace[j].len = (IF writable THEN 0 ELSE 1)
  /\ IsCall(j + 1, "Open", path)
  /\ trace[j + 1].len = (IF writable THEN 1 ELSE 0)
  /\ FailedOpenIsFatal(j + 1)

C22_DescriptorSelection ==
  /\ \A i \in StageIdx :
       IF SnapshotStage(i) /\ VerityIsWritten(i)
         THEN /\ IsCall(i + 1, "OpenCowFd", PartitionAt(i).source_path)
              /\ FailedOpenIsFatal(i + 1)
       ELSE IF SnapshotStage(i)
         THEN /\ trace[i + 1].ev = "UnmapAllPartitions"
              /\ trace[i + 2].ev = "MapAllPartitions"
              /\ OpensNormally(i + 3, PartitionAt(i).readonly_target_path, FALSE)
       ELSE trace[i].dev # "" =>
              OpensNormally(i + 1, trace[i].dev, VerityIsWritten(i))
  /\ \A j \in Idx("OpenCowFd") :
       trace[j - 1].ev = "StartPartitionHashing"
  /\ \A j \in Idx("Open") :
       /\ trace[j - 1].ev = "SetBlockDeviceReadOnly"
       /\ IsSourceEvent(j) => trace[j].len = 0
  /\ (partition_fd_.set /\ partition_fd_.cow) =>
       /\ ~partition_fd_.writable
       /\ partition_size_ =
            install_plan_.partitions[partition_index_ + 1].target_size

\* A run that used a COW descriptor, then mapped the partitions for a
\* read-only pass, and succeeded although a read-only flag was not set.
C22_Witness ==
  /\ CompletedWith(kSuccess)
  /\ \E j \in Idx("OpenCowFd") :
       /\ trace[j].ok
       /\ \E k \in Idx("MapAllPartitions") : k > j
  /\ \E j \in Idx("SetBlockDeviceReadOnly") : ~trace[j].ok

\* ------------------------------------------------------------------ C23
\* C23: on every terminal path (success, failure, cancellation), if
\* MapAllPartitions was called during the run, UnmapAllPartitions is called
\* after the last MapAllPartitions, for every write_verity of the plan and
\* every hash_tree_size / fec_size of the partitions.
C23_MappingUnmappedAtEnd ==
  (CompleteIdx # {} \/ CancelIdx # {}) =>
    \A j \in Idx("MapAllPartitions") :
      \E k \in Idx("UnmapAllPartitions") : k > j

\* ------------------------------------------------------------------ C24
\* C24: the verifier issues at most one device read per scheduled turn:
\* between any two reads, of Phase A, of Phase C or of different
\* partitions, control returns to the message loop.
TurnBetween(i, j) == \E t \in Idx("turn") : i < t /\ t < j

C24_OneReadPerTurn ==
  \A i, j \in Idx("Read") : i < j => TurnBetween(i, j)

\* ------------------------------------------------------------------ C25
\* C25: at most one read task of the verifier is pending in the message
\* loop: a task is posted only when none is pending, from the running
\* OnReadDone task or from PerformAction at the start of a partition, and
\* none is pending after a terminal outcome or after TerminateProcessing.
\* The tasks pending after the first |n| events: posted, and neither
\* dispatched nor removed by CancelTask.
Dispatched(n) ==
  { j \in Idx("turn") : j <= n /\ trace[j].dev = "OnReadDone" }
Removed(n) == { j \in Idx("CancelTask") : j <= n /\ trace[j].ok }
PendingTasks(n) ==
  Cardinality({ j \in Idx("PostTask") : j <= n })
    - Cardinality(Dispatched(n)) - Cardinality(Removed(n))
\* A task is posted when as many tasks were dispatched or removed as were
\* posted before it, in a turn (the last one before it) of OnReadDone or of
\* PerformAction.
OnePendingTask ==
  LET posts == Idx("PostTask")
      turns == Idx("turn")
      taken == Dispatched(Len(trace)) \cup Removed(Len(trace))
      now == PendingTasks(Len(trace))
  IN /\ now \in {0, 1}
     /\ pending_task_.posted <=> now = 1
     /\ \A j \in posts :
          /\ Cardinality({ k \in posts : k < j })
               = Cardinality({ k \in taken : k < j })
          /\ \E t \in turns :
               /\ t < j /\ \A u \in turns : u < j => u <= t
               /\ trace[t].dev \in {"OnReadDone", "PerformAction"}
     /\ CompleteIdx # {} => now = 0

C25_OnePendingTask ==
  /\ OnePendingTask
  /\ CancelIdx # {} => PendingTasks(Len(trace)) = 0

\* After TerminateProcessing no task is posted, and none is pending once
\* CancelTask removed the pending one or the message loop dispatched it.
C25_Amended ==
  /\ OnePendingTask
  /\ \A c \in CancelIdx :
       /\ \A j \in Idx("PostTask") : j < c
       /\ (Removed(Len(trace)) # {} \/ TurnsAfter(c, "OnReadDone") # {})
            => PendingTasks(Len(trace)) = 0

\* The task that CancelTask did not remove has run after the cancellation.
C25_Witness ==
  \E c \in CancelIdx :
    /\ Removed(Len(trace)) = {}
    /\ TurnsAfter(c, "OnReadDone") # {}
    /\ Cardinality(Idx("PostTask")) >= 2
    /\ PendingTasks(Len(trace)) = 0

\* ------------------------------------------------------------------ C26
\* C26: the verity writer is called only in the VerifyTarget step of a
\* partition with write_verity and (hash_tree_size > 0 or fec_size > 0):
\* after Init, the offsets of the Update calls start at 0 and each is the
\* previous offset plus the previous length; Finalize is called at most
\* once, when the Updates cover exactly [0, filesystem_data_end), and no
\* Update follows it; no Update carries bytes of the metadata sweep.
VerityIdx ==
  Idx("VerityInit") \cup Idx("VerityUpdate") \cup Idx("VerityFinalize")
\* Where the next Update has to start after call k.
CoveredAfter(k) ==
  IF trace[k].ev = "VerityUpdate" THEN trace[k].off + trace[k].len ELSE 0

\* C26, for each call j: |before| is the set of verity-writer calls for the
\* partition of j that precede it, and |prev| is the last of them.
C26_VerityWriterSequence ==
  LET calls == VerityIdx
  IN /\ \A c \in Idx("compare") : VerityIsWritten(c) => FinalizedBefore(c)
     /\ \A j \in calls :
          LET before == { k \in calls : k < j /\ SamePartition(k, j) }
              prev == CHOOSE k \in before : \A l \in before : l <= k
          IN /\ VerityIsWritten(j)
             /\ IF trace[j].ev = "VerityInit"
                  THEN before = {}
                  ELSE /\ before # {}
                       /\ trace[prev].ev \in {"VerityInit", "VerityUpdate"}
                       /\ trace[prev].ok
             /\ trace[j].ev = "VerityUpdate" =>
                  /\ trace[j].off = CoveredAfter(prev)
                  /\ trace[j].len > 0
                  /\ ~HashesPastDataEnd(j)
             /\ trace[j].ev = "VerityFinalize" =>
                  CoveredAfter(prev)
                    = DataEnd(PartitionAt(j), PartitionAt(j).target_size)

\* Finalize after two Updates that cover the data of the partition.
C26_Witness ==
  \E f \in Idx("VerityFinalize") :
    /\ trace[f].ok
    /\ \E j, k \in Idx("VerityUpdate") :
         /\ j < k /\ k < f /\ SamePartition(j, f) /\ SamePartition(k, f)
         /\ trace[j].off = 0 /\ trace[k].off = trace[j].len
    /\ \E c \in Idx("compare") : c > f /\ trace[c].ok

\* ------------------------------------------------------------------ C27
\* C27: a run that is not cancelled reaches a terminal outcome once the
\* message loop has dispatched every posted task: until ActionComplete a
\* task is pending, and the skip recursion, the reads of Phase A and of
\* Phase C and the fallback to the source all advance: stages follow each
\* other in increasing (partition, step) order, the reads of a stage
\* advance through the device, and a read of no bytes is the last one.
StageBefore(i, j) ==
  \/ trace[i].part < trace[j].part
  \/ /\ SamePartition(i, j)
     /\ IsTargetEvent(i) /\ IsSourceEvent(j)
SameStage(i, j) == SamePartition(i, j) /\ trace[i].step = trace[j].step

C27_RunReachesTerminalOutcome ==
  /\ (trace # << >> /\ ~cancelled_ /\ CompleteIdx = {}) =>
       (action_state = "running" /\ pending_task_.posted)
  /\ \A i, j \in StageIdx : i < j => StageBefore(i, j)
  /\ \A i, j \in Idx("Read") :
       i < j => /\ trace[i].len > 0
                /\ SameStage(i, j) => trace[i].off + trace[i].len <= trace[j].off

====
